---- MODULE Spec2Model ----
(***************************************************************************)
(* Gym Program Tracker: a state-machine model of the React component in    *)
(* src/App.jsx (build "App") and of its calendar variant in                *)
(* src/unnamed/part_000 (build "GymProgramTracker").                       *)
(*                                                                         *)
(* JavaScript values are modelled as tagged records (see Str, Num, ...).   *)
(* A number is held in thousandths, so that 22.5 is Num(22500).            *)
(***************************************************************************)
EXTENDS Integers, Sequences, FiniteSets, TLC

VARIABLES
    build,              \* which of the two source files is running
    sessions,           \* useState([]) : the Store
    rendered,           \* the `sessions` value closed over by the effects being flushed
    date,               \* useState(todayISO())
    dayKey,             \* useState("d1")
    notes,              \* useState("")
    cardioMinutes,      \* useState(PROGRAM.days.d1.cardio.minutesDefault)
    entries,            \* useState({})
    tab,                \* useState("log")
    selectedExerciseId, \* useState("shoulder_press")
    storage,            \* localStorage[STORAGE_KEY]
    pending,            \* effects of the current commit that have not run yet
    stale,              \* an effect called setSessions: a re-render is due
    reading,            \* the file an importDataFromFile call is awaiting
    alertMsg,           \* the last alert() shown
    crashed,            \* an uncaught TypeError unmounted the component
    edits,              \* number of form-field edits made so far
    lastOp,             \* history: the Store handler that ran last and its branch
                        \* ("other" after a form or tab handler)
    downloaded          \* the text of the file exportData offered last

vars == << build, sessions, rendered, date, dayKey, notes, cardioMinutes, entries,
           tab, selectedExerciseId, storage, pending, stale, reading, alertMsg,
           crashed, edits, lastOp, downloaded >>

----------------------------------------------------------------------------
(* Bounds of the model *)

MaxSessions == 2
MaxEdits == 1
MaxPoints == 3

----------------------------------------------------------------------------
(* JavaScript values *)

Str(s) == [t |-> "str", n |-> 0, s |-> s]
Num(milli) == [t |-> "num", n |-> milli, s |-> ""]
Null == [t |-> "null", n |-> 0, s |-> ""]
Undef == [t |-> "undef", n |-> 0, s |-> ""]
NaN == [t |-> "nan", n |-> 0, s |-> ""]
Infinity == [t |-> "inf", n |-> 0, s |-> ""]

EMPTY == Str("")

IsNullish(v) == v.t \in {"null", "undef"}

\* typeof v === "number"
IsNumberType(v) == v.t \in {"num", "nan", "inf"}

\* a ?? b
Coalesce(a, b) == IF IsNullish(a) THEN b ELSE a

\* The texts a user types into a field, with the value Number(text) gives
\* for each numeric literal among them (in thousandths).
NumericLiterals == {"40", "42"}
WhitespaceTexts == {" "}
LiteralMilli(s) == IF s = "40" THEN 40000 ELSE 42000

\* Number(text): the empty string and whitespace-only text convert to 0,
\* a numeric literal to its value, "Infinity" to Infinity, the rest to NaN.
NumberOfText(s) ==
    IF s = "" \/ s \in WhitespaceTexts THEN Num(0)
    ELSE IF s \in NumericLiterals THEN Num(LiteralMilli(s))
    ELSE IF s = "Infinity" THEN Infinity
    ELSE NaN

\* Number(value)
ToNumber(v) ==
    CASE v.t = "str" -> NumberOfText(v.s)
      [] v.t = "null" -> Num(0)
      [] v.t = "undef" -> NaN
      [] OTHER -> v

clampNumber(value) ==
    IF value = EMPTY \/ value = Null \/ value = Undef THEN EMPTY
    ELSE LET n == ToNumber(value)
         IN IF n = NaN THEN EMPTY ELSE n

----------------------------------------------------------------------------
(* The program catalog *)

Builds == {"App", "GymProgramTracker"}

\* `start` of an exercise without a starting weight: "" in App.jsx, null in the variant
NoStart(b) == IF b = "App" THEN EMPTY ELSE Null

Ex(id, start) == [id |-> id, start |-> start]

PROGRAM(b) ==
    [d1 |-> [title |-> "Day 1 - Shoulders (Heavy) + Push + Abs",
             cardio |-> [type |-> "Incline walk", minutesDefault |-> Num(15000)],
             exercises |-> << Ex("shoulder_press", Num(35000)),
                              Ex("lat_raise_machine", Num(20000)),
                              Ex("incline_db_press", Num(22500)),
                              Ex("rear_delt_fly_cable", Num(15000)),
                              Ex("triceps_pushdown", Num(40000)),
                              Ex("ab_crunch_machine", Num(40000)) >>],
     d2 |-> [title |-> "Day 2 - Light Lower + Stairs + Abs",
             cardio |-> [type |-> "Stair machine", minutesDefault |-> Num(20000)],
             exercises |-> << Ex("goblet_squat", NoStart(b)),
                              Ex("romanian_deadlift", NoStart(b)),
                              Ex("walking_lunges", NoStart(b)),
                              Ex("standing_calf_raise", NoStart(b)),
                              Ex("ab_crunch_machine", NoStart(b)) >>],
     d3 |-> [title |-> "Day 3 - Shoulders (Volume) + Pull + Abs",
             cardio |-> [type |-> "Incline walk", minutesDefault |-> Num(15000)],
             exercises |-> << Ex("upright_cable_row", NoStart(b)),
                              Ex("lat_pulldown", NoStart(b)),
                              Ex("face_pull", NoStart(b)),
                              Ex("cable_lateral_raise", NoStart(b)),
                              Ex("triceps_pushdown", NoStart(b)),
                              Ex("ab_crunch_machine", NoStart(b)) >>],
     d4 |-> [title |-> "Day 4 - Upper Accessories + Conditioning",
             cardio |-> [type |-> "Stairs or incline walk", minutesDefault |-> Num(15000)],
             exercises |-> << Ex("arnold_press", NoStart(b)),
                              Ex("rear_delt_fly", NoStart(b)),
                              Ex("biceps_curl", NoStart(b)),
                              Ex("hammer_curl", NoStart(b)) >>]]

DayKeys == {"d1", "d2", "d3", "d4"}

\* PROGRAM.days[k] is undefined for any other key
KnownDay(k) == k \in DayKeys

ExerciseIdsOf(b, k) ==
    LET exs == PROGRAM(b)[k].exercises IN {exs[i].id : i \in 1..Len(exs)}

allExercises == UNION {ExerciseIdsOf("App", k) : k \in DayKeys}

----------------------------------------------------------------------------
(* Sessions and their JSON text *)

NoEntries == [x \in {} |-> 0]

Entry(w, s, r) == [weight |-> w, sets |-> s, reps |-> r]

BlankEntry == Entry(EMPTY, EMPTY, EMPTY)

\* JSON.stringify writes NaN and Infinity as null (an undefined property is left
\* out, and reads back as undefined)
JsonValue(v) == IF v.t \in {"nan", "inf"} THEN Null ELSE v

JsonSession(s) ==
    [s EXCEPT !.cardio = [type |-> s.cardio.type, minutes |-> JsonValue(s.cardio.minutes)],
              !.entries = [x \in DOMAIN s.entries |->
                              Entry(JsonValue(s.entries[x].weight),
                                    JsonValue(s.entries[x].sets),
                                    JsonValue(s.entries[x].reps))]]

\* A text is one of: no item at all ("absent"), text that is not JSON ("garbage"),
\* JSON without an array-valued `sessions` ("other"), JSON of { sessions: [...] }
Text(kind, ss) == [kind |-> kind, sessions |-> ss]

Absent == Text("absent", << >>)

\* JSON.stringify({ sessions })
stringify(ss) == Text("store", [i \in 1..Len(ss) |-> JsonSession(ss[i])])

safeParseJSON(text) == [ok |-> text.kind # "garbage", data |-> text]

\* a slip: only parsed.data is tested
HasData(data) == data.kind # "garbage"

\* a slip: the test is the wrong way round
HasNoSessionsArray(data) == data.kind # "store"

\* parsed.data && Array.isArray(parsed.data.sessions)
HasSessionsArray(data) == data.kind = "store"

----------------------------------------------------------------------------
(* Day-change effect: default entries for a day *)

Max(S) == CHOOSE m \in S : \A x \in S : x <= m

Min(S) == CHOOSE m \in S : \A x \in S : m <= x

\* s.entries && s.entries[ex.id] && s.entries[ex.id].weight !== ""
HasWeightFor(s, exId) == exId \in DOMAIN s.entries /\ s.entries[exId].weight # EMPTY

\* [...sessions].reverse().find(...) : index of the match, 0 when there is none
lastLogged(ss, exId) ==
    LET hits == {i \in 1..Len(ss) : HasWeightFor(ss[i], exId)}
    IN IF hits = {} THEN 0 ELSE Max(hits)

defaultWeight(b, ss, ex) ==
    LET i == lastLogged(ss, ex.id)
    IN IF i > 0 THEN ss[i].entries[ex.id].weight ELSE ex.start

\* a slip: entries are seeded for the exercises of every day
nextEntriesAllDays(b, ss, k) ==
    [x \in UNION {ExerciseIdsOf(b, d) : d \in {"d1", "d2", "d3", "d4"}} |->
        Entry(EMPTY, EMPTY, EMPTY)]

nextEntries(b, ss, k) ==
    LET exs == PROGRAM(b)[k].exercises
    IN [x \in ExerciseIdsOf(b, k) |->
           LET ex == exs[CHOOSE i \in 1..Len(exs) : exs[i].id = x]
           IN Entry(Coalesce(defaultWeight(b, ss, ex), EMPTY), EMPTY, EMPTY)]

----------------------------------------------------------------------------
(* saveSession: the payload and the setSessions updater *)

\* notes.trim(), on the notes a user types
trim(s) == IF s = " pb " THEN "pb" ELSE IF s = " " THEN "" ELSE s

clean(v) == IF v = EMPTY THEN EMPTY ELSE clampNumber(v)

cleanEntries(b, k, es) ==
    [x \in ExerciseIdsOf(b, k) |->
        LET e == IF x \in DOMAIN es THEN es[x] ELSE BlankEntry
        IN Entry(clean(e.weight), clean(e.sets), clean(e.reps))]

\* a slip: the day's title and cardio type are read from the first day
payloadOfFirstDay(b, d, k, mins, nts, es, stamp) ==
    [id |-> d \o "-" \o k \o "-" \o stamp.rand,
     date |-> d,
     dayKey |-> k,
     dayName |-> PROGRAM(b)["d1"].title,
     cardio |-> [type |-> PROGRAM(b)["d1"].cardio.type, minutes |-> clean(mins)],
     notes |-> trim(nts),
     entries |-> cleanEntries(b, k, es),
     createdAt |-> stamp.now]

payload(b, d, k, mins, nts, es, stamp) ==
    [id |-> d \o "-" \o k \o "-" \o stamp.rand,
     date |-> d,
     dayKey |-> k,
     dayName |-> PROGRAM(b)[k].title,
     cardio |-> [type |-> PROGRAM(b)[k].cardio.type, minutes |-> clean(mins)],
     notes |-> trim(nts),
     entries |-> cleanEntries(b, k, es),
     createdAt |-> stamp.now]

\* prev.findIndex(pred) as a 1-based index, 0 for -1
findIndex(prev, hit(_)) ==
    LET hits == {i \in 1..Len(prev) : hit(prev[i])}
    IN IF hits = {} THEN 0 ELSE Min(hits)

idxDateAndDay(prev, p) ==
    LET Same(s) == s.date = p.date /\ s.dayKey = p.dayKey IN findIndex(prev, Same)

idxDateOnly(prev, p) ==
    LET Same(s) == s.date = p.date IN findIndex(prev, Same)

\* src/App.jsx: replace on a date-and-day match, else append
upsertApp(prev, p) ==
    IF idxDateAndDay(prev, p) > 0 THEN [prev EXCEPT ![idxDateAndDay(prev, p)] = p]
    ELSE Append(prev, p)

\* calendar variant: replace on a date-and-day match, else on a date match, else append
upsertTracker(prev, p) ==
    IF idxDateAndDay(prev, p) > 0 THEN [prev EXCEPT ![idxDateAndDay(prev, p)] = p]
    ELSE IF idxDateOnly(prev, p) > 0 THEN [prev EXCEPT ![idxDateOnly(prev, p)] = p]
    ELSE Append(prev, p)

\* a slip: the new session is put first instead of last
upsertPrepending(b, prev, p) ==
    IF idxDateAndDay(prev, p) > 0 THEN [prev EXCEPT ![idxDateAndDay(prev, p)] = p]
    ELSE IF b # "App" /\ idxDateOnly(prev, p) > 0 THEN [prev EXCEPT ![idxDateOnly(prev, p)] = p]
    ELSE << p >> \o prev

\* a slip: the new session is added without looking for the one it replaces
upsertAppending(b, prev, p) == Append(prev, p)

upsert(b, prev, p) == IF b = "App" THEN upsertApp(prev, p) ELSE upsertTracker(prev, p)

----------------------------------------------------------------------------
(* Inputs *)

\* the dates a user picks, in ISO form; ISO dates compare as strings in this order
DateOrder == << "2024-01-01", "2024-01-08", "2024-01-15" >>

DateIndex(d) == CHOOSE i \in 1..Len(DateOrder) : DateOrder[i] = d

\* a.date > b.date, on ISO date strings
DateGT(a, b) == DateIndex(a) > DateIndex(b)

FormDates == {"2024-01-01", "2024-01-08"}

DayChoices == {"d1", "d2"}

FieldTexts == {"", " ", "abc", "42"}

NoteTexts == {" pb "}

EditFields == {"weight", "sets", "reps"}

\* the exercise whose weight the user retypes in the Store life cycle (days d1
\* and d2 share it)
WeightEdits == {"ab_crunch_machine"}

\* Math.random().toString(16).slice(2) and new Date().toISOString() of one save
FirstStamp == [rand |-> "8f3a", now |-> "2024-01-08T07:00:00.000Z"]

Stamps == {FirstStamp, [rand |-> "c41d", now |-> "2024-01-15T07:00:00.000Z"]}

Tabs == {"log", "progress", "history"}

\* a session as a file or a stored blob may hold it
Session(id, d, k, w) ==
    [id |-> id, date |-> d, dayKey |-> k, dayName |-> "Day",
     cardio |-> [type |-> "Incline walk", minutes |-> Num(15000)],
     notes |-> "",
     entries |-> [x \in {"shoulder_press"} |-> Entry(w, EMPTY, EMPTY)],
     createdAt |-> "2024-01-01T07:00:00.000Z"]

FileA == Session("2024-01-01-d1-aaaa", "2024-01-01", "d1", Num(40000))

FileB == Session("2024-01-01-d2-bbbb", "2024-01-01", "d2", Null)

\* what localStorage may hold when the component mounts
InitialStorage == {Absent, Text("garbage", << >>), Text("other", << >>),
                   Text("store", << >>)}

\* the files a user may pick for import
ImportFiles == {Text("garbage", << >>), Text("other", << >>),
                Text("store", << >>), Text("store", << FileA, FileB >>)}

NoFile == Text("none", << >>)

----------------------------------------------------------------------------
(* Mount and effects *)

Mount(b, today, blob) ==
    /\ build = b
    /\ sessions = << >>
    /\ rendered = << >>
    /\ date = today
    /\ dayKey = "d1"
    /\ notes = ""
    /\ cardioMinutes = PROGRAM(b).d1.cardio.minutesDefault
    /\ entries = NoEntries
    /\ tab = "log"
    /\ selectedExerciseId = "shoulder_press"
    /\ storage = blob
    /\ pending = << "load", "save", "day" >>
    /\ stale = FALSE
    /\ reading = NoFile
    /\ alertMsg = ""
    /\ crashed = FALSE
    /\ edits = 0
    /\ lastOp = "mount"
    /\ downloaded = NoFile

Init == \E b \in Builds, today \in FormDates, blob \in InitialStorage : Mount(b, today, blob)

\* a slip: the save effect has the dependencies [] and runs at mount only
effectsAfterMountSave(b, sessionsChanged, dayKeyChanged) ==
    IF dayKeyChanged \/ (b = "App" /\ sessionsChanged) THEN << "day" >> ELSE << >>

\* the effects a render schedules: the save effect depends on [sessions]; the
\* day-change effect on [dayKey, sessions] in App.jsx and on [dayKey] in the variant
effectsAfter(b, sessionsChanged, dayKeyChanged) ==
    (IF sessionsChanged THEN << "save" >> ELSE << >>)
    \o (IF dayKeyChanged \/ (b = "App" /\ sessionsChanged) THEN << "day" >> ELSE << >>)

formVars == << date, dayKey, notes, cardioMinutes, entries >>

uiVars == << tab, selectedExerciseId, alertMsg >>

\* useEffect(() => { ... localStorage.getItem ... setSessions(...) }, [])
LoadEffect ==
    /\ ~crashed /\ pending # << >> /\ Head(pending) = "load"
    /\ pending' = Tail(pending)
    /\ LET raw == storage
           parsed == safeParseJSON(raw)
       IN IF raw # Absent /\ parsed.ok /\ HasSessionsArray(parsed.data)
          THEN sessions' = parsed.data.sessions /\ stale' = TRUE
          ELSE UNCHANGED << sessions, stale >>
    /\ UNCHANGED << build, downloaded, rendered, formVars, uiVars, storage, reading, crashed, edits, lastOp >>

\* useEffect(() => { localStorage.setItem(STORAGE_KEY, JSON.stringify({ sessions })) }, [sessions])
SaveEffect ==
    /\ ~crashed /\ pending # << >> /\ Head(pending) = "save"
    /\ pending' = Tail(pending)
    /\ storage' = stringify(rendered)
    /\ UNCHANGED << build, downloaded, sessions, rendered, formVars, uiVars, stale, reading, crashed,
                    edits, lastOp >>

\* useEffect(() => { ... setCardioMinutes ... setEntries(nextEntries) }, [dayKey ...])
DayEffect ==
    /\ ~crashed /\ pending # << >> /\ Head(pending) = "day"
    /\ pending' = Tail(pending)
    /\ IF KnownDay(dayKey)
       THEN /\ cardioMinutes' = PROGRAM(build)[dayKey].cardio.minutesDefault
            /\ entries' = nextEntries(build, rendered, dayKey)
            /\ UNCHANGED crashed
       ELSE /\ crashed' = TRUE
            /\ UNCHANGED << cardioMinutes, entries >>
    /\ UNCHANGED << build, downloaded, sessions, rendered, date, dayKey, notes, uiVars, storage,
                    stale, reading, edits, lastOp >>

\* the render that follows a setSessions call made by an effect
Render ==
    /\ ~crashed /\ pending = << >> /\ stale
    /\ rendered' = sessions
    /\ stale' = FALSE
    /\ pending' = effectsAfter(build, TRUE, FALSE)
    /\ UNCHANGED << build, downloaded, sessions, formVars, uiVars, storage, reading, crashed, edits, lastOp >>

Effects == LoadEffect \/ SaveEffect \/ DayEffect \/ Render

\* event handlers run between commits
Idle == ~crashed /\ pending = << >> /\ ~stale

----------------------------------------------------------------------------
(* Form handlers *)

\* <input type="date" onChange={(e) => setDate(e.target.value)} />
setDate(d) ==
    /\ Idle /\ tab = "log"
    /\ date' = d
    /\ lastOp' = "other"
    /\ UNCHANGED << build, downloaded, sessions, rendered, dayKey, notes, cardioMinutes, entries,
                    uiVars, storage, pending, stale, reading, crashed, edits >>

\* <select onChange={(e) => setDayKey(e.target.value)}>
setDayKey(k) ==
    /\ Idle /\ tab = "log"
    /\ dayKey' = k
    /\ pending' = effectsAfter(build, FALSE, k # dayKey)
    /\ lastOp' = "other"
    /\ UNCHANGED << build, downloaded, sessions, rendered, date, notes, cardioMinutes, entries,
                    uiVars, storage, stale, reading, crashed, edits >>

updateEntry(exId, field, value) ==
    /\ Idle /\ tab = "log" /\ edits < MaxEdits
    /\ exId \in DOMAIN entries
    /\ entries' = [entries EXCEPT ![exId] = [@ EXCEPT ![field] = Str(value)]]
    /\ edits' = edits + 1
    /\ lastOp' = "other"
    /\ UNCHANGED << build, downloaded, sessions, rendered, date, dayKey, notes, cardioMinutes,
                    uiVars, storage, pending, stale, reading, crashed >>

setCardioMinutes(value) ==
    /\ Idle /\ tab = "log" /\ edits < MaxEdits
    /\ cardioMinutes' = Str(value)
    /\ edits' = edits + 1
    /\ lastOp' = "other"
    /\ UNCHANGED << build, downloaded, sessions, rendered, date, dayKey, notes, entries,
                    uiVars, storage, pending, stale, reading, crashed >>

setNotes(value) ==
    /\ Idle /\ tab = "log" /\ edits < MaxEdits
    /\ notes' = value
    /\ edits' = edits + 1
    /\ lastOp' = "other"
    /\ UNCHANGED << build, downloaded, sessions, rendered, date, dayKey, cardioMinutes, entries,
                    uiVars, storage, pending, stale, reading, crashed >>

----------------------------------------------------------------------------
(* Store handlers *)

\* what setSessions(next) in a handler leads to: the render and its effects
Commit(next) ==
    /\ sessions' = next
    /\ rendered' = next
    /\ pending' = effectsAfter(build, TRUE, FALSE)

\* the branch of the setSessions updater that saving p takes
branchOf(b, prev, p) ==
    IF idxDateAndDay(prev, p) > 0 THEN "saveSession:replaced"
    ELSE IF upsert(b, prev, p) # Append(prev, p) THEN "saveSession:replacedByDate"
    ELSE "saveSession:appended"

saveSessionWith(stamp) ==
    LET p == payload(build, date, dayKey, cardioMinutes, notes, entries, stamp)
        next == upsert(build, sessions, p)
    IN /\ Idle /\ tab = "log"
       /\ Len(next) <= MaxSessions \/ Len(next) = Len(sessions)
       /\ Commit(next)
       /\ notes' = ""
       /\ tab' = "progress"
       /\ lastOp' = branchOf(build, sessions, p)
       /\ UNCHANGED << build, downloaded, date, dayKey, cardioMinutes, entries, selectedExerciseId,
                       alertMsg, storage, stale, reading, crashed, edits >>

saveSession == \E stamp \in Stamps : saveSessionWith(stamp)

\* a slip: the test of the filter is the wrong way round
withoutOthers(prev, id) ==
    LET keep == {i \in 1..Len(prev) : prev[i].id = id}
        F[n \in 0..Len(prev)] ==
            IF n = 0 THEN << >>
            ELSE IF n \in keep THEN Append(F[n - 1], prev[n]) ELSE F[n - 1]
    IN F[Len(prev)]

\* prev.filter((s) => s.id !== id)
withoutId(prev, id) ==
    LET keep == {i \in 1..Len(prev) : prev[i].id # id}
        F[n \in 0..Len(prev)] ==
            IF n = 0 THEN << >>
            ELSE IF n \in keep THEN Append(F[n - 1], prev[n]) ELSE F[n - 1]
    IN F[Len(prev)]

deleteSession(id) ==
    /\ Idle /\ tab = "history"
    /\ Commit(withoutId(sessions, id))
    /\ lastOp' = "deleteSession"
    /\ UNCHANGED << build, downloaded, formVars, uiVars, storage, stale, reading, crashed, edits >>

\* a slip: the answer of confirm(...) is not looked at
clearAllUnconfirmed(ok) ==
    /\ Idle
    /\ Commit(<< >>)
    /\ lastOp' = IF ok THEN "clearAll:confirmed" ELSE "clearAll:declined"
    /\ UNCHANGED << build, downloaded, formVars, uiVars, storage, stale, reading, crashed, edits >>

\* confirm(...) answers ok
clearAll(ok) ==
    /\ Idle
    /\ IF ok THEN Commit(<< >>) ELSE UNCHANGED << sessions, rendered, pending >>
    /\ lastOp' = IF ok THEN "clearAll:confirmed" ELSE "clearAll:declined"
    /\ UNCHANGED << build, downloaded, formVars, uiVars, storage, stale, reading, crashed, edits >>

\* new Blob([JSON.stringify({ sessions }, null, 2)]) offered as a download
exportData ==
    /\ Idle
    /\ downloaded' = stringify(sessions)
    /\ lastOp' = "exportData"
    /\ UNCHANGED << build, sessions, rendered, formVars, uiVars, storage, pending, stale,
                    reading, crashed, edits >>

\* a slip: the file's sessions are added to the Store
importedMerged(prev, data) == prev \o data.sessions

\* a slip: the file only fills a Store that is empty when the read settles
importedIntoEmpty(prev, data) == IF prev = << >> THEN data.sessions ELSE prev

\* setSessions(parsed.data.sessions): the Store an accepted file leaves
imported(prev, data) == data.sessions

\* importDataFromFile up to `await file.text()`
importStart(file) ==
    /\ Idle /\ reading = NoFile
    /\ reading' = file
    /\ lastOp' = "importDataFromFile:await"
    /\ UNCHANGED << build, downloaded, sessions, rendered, formVars, uiVars, storage, pending, stale,
                    crashed, edits >>

\* importDataFromFile from `await file.text()` on
importResume ==
    /\ Idle /\ reading # NoFile
    /\ reading' = NoFile
    /\ LET parsed == safeParseJSON(reading)
       IN IF ~parsed.ok
          THEN /\ alertMsg' = "Import failed: SyntaxError"
               /\ lastOp' = "importDataFromFile:failed"
               /\ UNCHANGED << sessions, rendered, pending >>
          ELSE IF ~HasSessionsArray(parsed.data)
          THEN /\ alertMsg' = "Import failed: expected { sessions: [...] }"
               /\ lastOp' = "importDataFromFile:failed"
               /\ UNCHANGED << sessions, rendered, pending >>
          ELSE /\ Commit(imported(sessions, parsed.data))
               /\ alertMsg' = "Import complete."
               /\ lastOp' = "importDataFromFile:complete"
    /\ UNCHANGED << build, downloaded, formVars, tab, selectedExerciseId, storage, stale, crashed, edits >>

----------------------------------------------------------------------------
(* Tabs and calendar *)

setTab(t) ==
    /\ Idle
    /\ tab' = t
    /\ lastOp' = "other"
    /\ UNCHANGED << build, downloaded, sessions, rendered, formVars, selectedExerciseId, alertMsg,
                    storage, pending, stale, reading, crashed, edits >>

\* sessionsByDate.get(iso): the Map keeps the last session of each date; 0 when none
sessionIndexByDate(ss, iso) ==
    LET hits == {i \in 1..Len(ss) : ss[i].date = iso}
    IN IF hits = {} THEN 0 ELSE Max(hits)

\* the entries loadSessionForDate fills the form with
filled(b, session) ==
    [x \in ExerciseIdsOf(b, session.dayKey) |->
        LET e == IF x \in DOMAIN session.entries THEN session.entries[x] ELSE BlankEntry
        IN Entry(Coalesce(e.weight, EMPTY), Coalesce(e.sets, EMPTY), Coalesce(e.reps, EMPTY))]

\* onPickDate of the calendar (the variant only)
loadSessionForDate(iso) ==
    LET i == sessionIndexByDate(sessions, iso)
        session == sessions[i]
    IN /\ Idle /\ build = "GymProgramTracker"
       /\ lastOp' = "loadSessionForDate"
       /\ IF i = 0
          THEN /\ date' = iso /\ tab' = "log"
               /\ UNCHANGED << dayKey, notes, cardioMinutes, entries, pending, crashed >>
          ELSE /\ date' = session.date
               /\ dayKey' = session.dayKey
               /\ notes' = session.notes
               /\ IF KnownDay(session.dayKey)
                  THEN /\ cardioMinutes' = Coalesce(session.cardio.minutes,
                                              PROGRAM(build)[session.dayKey].cardio.minutesDefault)
                       /\ entries' = filled(build, session)
                       /\ tab' = "log"
                       /\ pending' = effectsAfter(build, FALSE, session.dayKey # dayKey)
                       /\ UNCHANGED crashed
                  ELSE /\ crashed' = TRUE
                       /\ UNCHANGED << cardioMinutes, entries, tab, pending >>
       /\ UNCHANGED << build, downloaded, sessions, rendered, selectedExerciseId, alertMsg, storage,
                       stale, reading, edits >>

----------------------------------------------------------------------------
(* The component: mount, effects and the handlers of the log, history and   *)
(* calendar views                                                           *)

Next ==
    \/ Effects
    \/ \E d \in FormDates : setDate(d)
    \/ \E k \in DayChoices : setDayKey(k)
    \/ \E x \in WeightEdits : updateEntry(x, "weight", "42")
    \/ \E stamp \in {FirstStamp} : saveSessionWith(stamp)
    \/ \E i \in 1..Len(sessions) : deleteSession(sessions[i].id)
    \/ \E ok \in BOOLEAN : clearAll(ok)
    \/ \E t \in Tabs : setTab(t)
    \/ \E iso \in FormDates : loadSessionForDate(iso)

Spec == Init /\ [][Next]_vars

----------------------------------------------------------------------------
(* Session Upsert: saveSession against the Store *)

\* the sessions of ss whose date is d
OnDate(ss, d) == {i \in 1..Len(ss) : ss[i].date = d}

\* every index but i holds the same session before and after the step
OthersKept(i) ==
    /\ Len(sessions') = Len(sessions)
    /\ \A j \in 1..Len(sessions) : j # i => sessions'[j] = sessions[j]

\* the session a save of the form would write, up to its id and createdAt
CarriesForm(s) ==
    \E stamp \in Stamps :
        s = payload(build, date, dayKey, cardioMinutes, notes, entries, stamp)

\* C1: a save whose date and dayKey both match a stored session replaces that
\* session at its index, keeps every other session where it was, and leaves exactly
\* one session with that date, which carries the saved values.
C1_ReplaceSameDateAndDay ==
    [][ LET p == payload(build, date, dayKey, cardioMinutes, notes, entries, FirstStamp)
            idx == idxDateAndDay(sessions, p)
        IN (saveSession /\ idx > 0) =>
               /\ OthersKept(idx)
               /\ CarriesForm(sessions'[idx])
               /\ OnDate(sessions', date) = {idx} ]_vars

\* C2: a save whose date matches a stored session of another dayKey (and no
\* session matches both) replaces that session at its index instead of appending.
C2_ReplaceSameDateOtherDay ==
    [][ LET p == payload(build, date, dayKey, cardioMinutes, notes, entries, FirstStamp)
            idx == idxDateOnly(sessions, p)
        IN (saveSession /\ idxDateAndDay(sessions, p) = 0 /\ idx > 0) =>
               /\ OthersKept(idx)
               /\ CarriesForm(sessions'[idx]) ]_vars

\* C3: a save whose date no stored session has appends the new session: the Store
\* grows by one and the previous sessions are its unchanged prefix.
C3_AppendNewDate ==
    [][ (saveSession /\ OnDate(sessions, date) = {}) =>
            /\ Len(sessions') = Len(sessions) + 1
            /\ SubSeq(sessions', 1, Len(sessions)) = sessions
            /\ CarriesForm(sessions'[Len(sessions')]) ]_vars

\* a save has just appended a session behind an earlier one
C3_Witness ==
    /\ lastOp = "saveSession:appended"
    /\ Len(sessions) = 2
    /\ sessions[1].date # sessions[2].date

\* C4: from an empty Store, after any saves, deletes and clears, no date has more
\* than one session.
C4_OneSessionPerDate ==
    \A i, j \in 1..Len(sessions) : sessions[i].date = sessions[j].date => i = j

----------------------------------------------------------------------------
(* Filling the log form: every field and every text, on one date and day *)

FormExercises == {"shoulder_press", "ab_crunch_machine"}

InitForm ==
    \E b \in Builds, blob \in {Absent, Text("store", << FileA >>)} :
        Mount(b, "2024-01-01", blob)

NextForm ==
    \/ Effects
    \/ \E x \in FormExercises, f \in EditFields, v \in FieldTexts : updateEntry(x, f, v)
    \/ \E v \in FieldTexts : setCardioMinutes(v)
    \/ \E v \in NoteTexts : setNotes(v)
    \/ saveSession
    \/ setTab("log")

SpecForm == InitForm /\ [][NextForm]_vars

\* two sessions that differ at most in id and createdAt
SameUpToStamp(s, u) == [s EXCEPT !.id = u.id, !.createdAt = u.createdAt] = u

\* the stored session of index i is what a save of the form as it stands writes
StoredIsForm(i) ==
    SameUpToStamp(sessions[i],
                  payload(build, date, dayKey, cardioMinutes, notes, entries, FirstStamp))

\* C6 as stated: saving again what is stored leaves the Store as it is.
C6_SecondSaveSameStore ==
    [][ \A i \in 1..Len(sessions) :
            (saveSession /\ StoredIsForm(i)) => sessions' = sessions ]_vars

\* C6 amended: saving again what is stored keeps the Store's length and every other
\* session, and the session of that date is the same but for its id and createdAt.
C6_SecondSaveSameUpToStamp ==
    [][ \A i \in 1..Len(sessions) :
            (saveSession /\ StoredIsForm(i)) =>
                /\ OthersKept(i)
                /\ SameUpToStamp(sessions'[i], sessions[i]) ]_vars

\* the second of two equal saves has run, and the blob still holds the first
C6_Witness ==
    /\ lastOp = "saveSession:replaced"
    /\ pending # << >> /\ Head(pending) = "save"
    /\ Len(sessions) = 1 /\ Len(storage.sessions) = 1
    /\ SameUpToStamp(storage.sessions[1], sessions[1])
    /\ storage.sessions[1].id # sessions[1].id

\* the input parses as a number: it is one already, or it is a numeric literal
Parses(v) == v.t = "num" \/ (v.t = "str" /\ v.s \in NumericLiterals)

Parsed(v) == IF v.t = "num" THEN v ELSE Num(LiteralMilli(v.s))

\* a stored field against the input it was saved from
Normalized(input, stored) ==
    /\ ~Parses(input) => stored = EMPTY
    /\ stored # EMPTY => Parses(input) /\ stored = Parsed(input)

\* C7: every save completes, and each numeric field it stores is the empty
\* sentinel when the input is empty or no number, and the parsed number otherwise.
C7_UnparseableIsEmpty ==
    [][ saveSession =>
            /\ \E i \in 1..Len(sessions') :
                   sessions'[i].date = date /\ sessions'[i].dayKey = dayKey
            /\ \A i \in 1..Len(sessions') :
                   (sessions'[i].date = date /\ sessions'[i].dayKey = dayKey) =>
                       /\ Normalized(cardioMinutes, sessions'[i].cardio.minutes)
                       /\ \A x \in DOMAIN entries, f \in EditFields :
                              Normalized(entries[x][f], sessions'[i].entries[x][f]) ]_vars

----------------------------------------------------------------------------
(* Restoring and importing: the Store as loaded from a blob or a file *)

InitImport ==
    \E b \in Builds,
       blob \in {Absent, Text("garbage", << >>), Text("other", << >>),
                 Text("store", << FileA >>)} :
        Mount(b, "2024-01-08", blob)

NextImport ==
    \/ Effects
    \/ \E file \in ImportFiles : importStart(file)
    \/ importResume
    \/ \E stamp \in {FirstStamp} : saveSessionWith(stamp)
    \/ \E i \in 1..Len(sessions) : deleteSession(sessions[i].id)
    \/ \E ok \in BOOLEAN : clearAll(ok)
    \/ \E t \in Tabs : setTab(t)

SpecImport == InitImport /\ [][NextImport]_vars

\* C5: in every reachable state, also after the startup load and after an import,
\* no two sessions of the Store share a date.
C5_NoTwoSessionsShareDate ==
    \A i, j \in 1..Len(sessions) : i # j => sessions[i].date # sessions[j].date

\* importDataFromFile resumes after `await file.text()` in this step
Resuming == Idle /\ reading # NoFile /\ reading' = NoFile

ImportFailure ==
    {"Import failed: SyntaxError", "Import failed: expected { sessions: [...] }"}

\* C16: an import of a file that is not valid JSON, or whose value has no
\* array-valued `sessions`, reports an error and leaves the Store and the
\* persisted blob as they are.
C16_RejectedImportKeepsStore ==
    [][ (Resuming /\ reading.kind \in {"garbage", "other"}) =>
          /\ alertMsg' \in ImportFailure
          /\ sessions' = sessions /\ rendered' = rendered
          /\ storage' = storage /\ pending' = << >> ]_vars

\* a file without `sessions` was refused while the Store held a session
C16_Witness ==
    /\ lastOp = "importDataFromFile:failed"
    /\ alertMsg = "Import failed: expected { sessions: [...] }"
    /\ Len(sessions) >= 1 /\ storage = stringify(sessions)

\* C17: an import of a file with an array-valued `sessions` makes the Store that
\* array: nothing of the previous Store is kept or merged.
C17_AcceptedImportReplacesStore ==
    [][ (Resuming /\ reading.kind = "store") => sessions' = reading.sessions ]_vars

\* an import has replaced a Store whose session (still in the blob) is not in the file
C17_Witness ==
    /\ lastOp = "importDataFromFile:complete"
    /\ pending # << >> /\ Head(pending) = "save"
    /\ Len(sessions) = 2
    /\ Len(storage.sessions) = 1
    /\ \A i \in 1..Len(sessions) : sessions[i].id # storage.sessions[1].id

\* C18: the startup load raises no error; it leaves the Store empty when the
\* blob is missing, not valid JSON or without an array-valued `sessions`, and
\* sets it to the blob's `sessions` otherwise.
C18_StartupLoad ==
    [][ (~crashed /\ pending # << >> /\ Head(pending) = "load") =>
          /\ ~crashed' /\ alertMsg' = ""
          /\ sessions' = IF storage.kind = "store" THEN storage.sessions ELSE << >> ]_vars

\* the Store as loaded from a blob with one session, before the first re-render
C18_Witness ==
    /\ lastOp = "mount" /\ stale
    /\ Len(sessions) = 1 /\ rendered = << >>

----------------------------------------------------------------------------
(* Analytics Projector: chartData and lastTwo *)

\* a - b of the sort comparator: (a, b) => (a.date > b.date ? 1 : -1)
compareReversed(a, b) == IF DateGT(b.date, a.date) THEN 1 ELSE -1

compare(a, b) == IF DateGT(a.date, b.date) THEN 1 ELSE -1

\* Array.prototype.sort on a short array: each row is inserted into the sorted
\* rows before it, at the first place where the comparator puts it before a row
insert(sorted, x) ==
    LET k == Cardinality({i \in 1..Len(sorted) : compare(x, sorted[i]) > 0})
    IN SubSeq(sorted, 1, k) \o << x >> \o SubSeq(sorted, k + 1, Len(sorted))

sort(rows) ==
    LET F[n \in 0..Len(rows)] == IF n = 0 THEN << >> ELSE insert(F[n - 1], rows[n])
    IN F[Len(rows)]

\* a slip: the stored weight is converted without the test for "not recorded"
pointWeightCoerced(w) == ToNumber(w)

\* w === "" || w === null || w === undefined ? null : Number(w)
pointWeight(w) == IF w = EMPTY \/ w = Null \/ w = Undef THEN Null ELSE ToNumber(w)

point(s, exId) ==
    [date |-> s.date, weight |-> pointWeight(s.entries[exId].weight), dayKey |-> s.dayKey]

chartData(ss, exId) ==
    LET keep == {i \in 1..Len(ss) : exId \in DOMAIN ss[i].entries}
        F[n \in 0..Len(ss)] ==
            IF n = 0 THEN << >>
            ELSE IF n \in keep THEN Append(F[n - 1], point(ss[n], exId)) ELSE F[n - 1]
    IN sort(F[Len(ss)])

\* a slip: every point counts, also one without a weight
validAll(chart) == chart

\* chartData.filter((d) => typeof d.weight === "number" && !Number.isNaN(d.weight))
valid(chart) ==
    LET keep == {i \in 1..Len(chart) : IsNumberType(chart[i].weight) /\ chart[i].weight # NaN}
        F[n \in 0..Len(chart)] ==
            IF n = 0 THEN << >>
            ELSE IF n \in keep THEN Append(F[n - 1], chart[n]) ELSE F[n - 1]
    IN F[Len(chart)]

\* `null` where lastTwo has no point
NoPoint == [date |-> "", weight |-> Null, dayKey |-> ""]

\* a slip: the difference is shown as it is, without rounding
toFixedUnrounded(milli) == milli

\* Number(x.toFixed(2)), on thousandths: the hundredth nearest to x, the larger
\* magnitude of two equally near ones (toFixed rounds -x and prepends "-")
toFixed(milli) ==
    LET mag == IF milli < 0 THEN 0 - milli ELSE milli
        rounded == ((mag + 5) \div 10) * 10
    IN IF milli < 0 THEN 0 - rounded ELSE rounded

\* a slip: the latest weight is taken for the best one
lastWeight(v) == v[Len(v)].weight

\* Math.max(...valid.map((d) => d.weight)), on at least one point
maxWeight(v) == Num(Max({v[i].weight.n : i \in 1..Len(v)}))

\* a slip: Math.max() of no weight at all, which is -Infinity
lastTwoUnguarded(chart) ==
    [last |-> NoPoint, prev |-> NoPoint, delta |-> Null,
     best |-> [t |-> "inf", n |-> 0 - 1, s |-> ""]]

lastTwo(chart) ==
    LET v == valid(chart)
        last == IF Len(v) >= 1 THEN v[Len(v)] ELSE NoPoint
        prev == IF Len(v) >= 2 THEN v[Len(v) - 1] ELSE NoPoint
    IN [last |-> last,
        prev |-> prev,
        delta |-> IF last # NoPoint /\ prev # NoPoint
                  THEN Num(toFixed(last.weight.n - prev.weight.n))
                  ELSE Null,
        best |-> IF Len(v) > 0 THEN maxWeight(v) ELSE Null]

\* <select onChange={(e) => setSelectedExerciseId(e.target.value)}>
setSelectedExerciseId(exId) ==
    /\ Idle /\ tab = "progress"
    /\ selectedExerciseId' = exId
    /\ lastOp' = "other"
    /\ UNCHANGED << build, downloaded, sessions, rendered, formVars, tab, alertMsg, storage, pending,
                    stale, reading, crashed, edits >>

\* the sessions a Store may hold, whatever wrote it: on each date, a Day 1 session
\* with a shoulder press weight of 40, of 42, left empty or null, and on one date
\* a weight of 40.125 and a Day 2 session (which has no shoulder press entry)
Recorded(d, w) == Session(d \o "-d1-" \o w.t, d, "d1", w)

Day2Session(d) ==
    [Session(d \o "-d2-0", d, "d2", EMPTY) EXCEPT
        !.entries = [x \in {"goblet_squat"} |-> Entry(Num(40000), EMPTY, EMPTY)]]

SessionPool ==
    {Recorded(DateOrder[i], w) : i \in 1..Len(DateOrder),
                                 w \in {Num(40000), Num(42000), EMPTY, Null}}
    \cup {Recorded(DateOrder[2], Num(40125)), Day2Session(DateOrder[2])}

StoresUpTo(n) == UNION {[1..k -> SessionPool] : k \in 0..n}

ChartExercises == {"shoulder_press", "goblet_squat"}

\* the component at rest on the progress tab, with a given Store
AtRest(b, ss) ==
    /\ build = b
    /\ sessions = ss
    /\ rendered = ss
    /\ date = "2024-01-01"
    /\ dayKey = "d1"
    /\ notes = ""
    /\ cardioMinutes = PROGRAM(b).d1.cardio.minutesDefault
    /\ entries = nextEntries(b, IF b = "App" THEN ss ELSE << >>, "d1")
    /\ tab = "progress"
    /\ selectedExerciseId = "shoulder_press"
    /\ storage = stringify(ss)
    /\ pending = << >>
    /\ stale = FALSE
    /\ reading = NoFile
    /\ alertMsg = ""
    /\ crashed = FALSE
    /\ edits = 0
    /\ lastOp = "other"
    /\ downloaded = NoFile

InitAnalytics == \E b \in Builds, ss \in StoresUpTo(MaxPoints) : AtRest(b, ss)

NextAnalytics == \E exId \in ChartExercises : setSelectedExerciseId(exId)

SpecAnalytics == InitAnalytics /\ [][NextAnalytics]_vars

\* the series on display
Series == chartData(sessions, selectedExerciseId)

\* the sessions that recorded an entry for the selected exercise
Recording == {i \in 1..Len(sessions) : selectedExerciseId \in DOMAIN sessions[i].entries}

\* the point the claim gives a recording session: null for "not recorded", the
\* stored number otherwise
Expected(s) ==
    LET w == s.entries[selectedExerciseId].weight
    IN [date |-> s.date,
        weight |-> IF w \in {EMPTY, Null, Undef} THEN Null ELSE w,
        dayKey |-> s.dayKey]

\* C8: the series holds one point per session that recorded the exercise and none
\* for another session; a point's weight is null exactly for a weight that was not
\* recorded, and the stored number otherwise.
C8_OnePointPerRecordingSession ==
    LET chart == Series
        rec == Recording
        points == {chart[k] : k \in 1..Len(chart)}
        expected == {Expected(sessions[i]) : i \in rec}
    IN /\ Len(chart) = Cardinality(rec)
       /\ points = expected
       /\ \A q \in points :
              Cardinality({k \in 1..Len(chart) : chart[k] = q})
                  = Cardinality({i \in rec : Expected(sessions[i]) = q})

\* a Store of three sessions, of which one has no entry for the exercise and one
\* has an empty weight
C8_Witness ==
    LET chart == Series
    IN /\ Len(sessions) = 3 /\ Len(chart) = 2
       /\ \E i \in Recording : sessions[i].entries[selectedExerciseId].weight = EMPTY
       /\ \E k \in 1..Len(chart) : chart[k].weight = Null
       /\ \E k \in 1..Len(chart) : chart[k].weight = Num(42000)

\* C9: the series is sorted non-decreasing by date.
C9_SeriesSortedByDate ==
    LET chart == Series
    IN \A k \in 1..(Len(chart) - 1) : ~DateGT(chart[k].date, chart[k + 1].date)

\* a Store saved latest-first, with a date that repeats, and its series
C9_Witness ==
    /\ Len(sessions) = 3 /\ Len(Series) = 3
    /\ DateGT(sessions[1].date, sessions[2].date)
    /\ sessions[2].date = sessions[3].date

Numeric(w) == w.t \in {"num", "inf"}

NumericPoints(chart) == {k \in 1..Len(chart) : Numeric(chart[k].weight)}

\* C10: `last` is a numeric point of the greatest date among the numeric points
\* (none without a numeric point); `previous` is a numeric point of the greatest
\* date among the remaining numeric points, null-weight points being skipped
\* (none with fewer than two numeric points).
C10_LastAndPrevious ==
    LET chart == Series
        lt == lastTwo(chart)
        N == NumericPoints(chart)
    IN /\ N = {} => lt.last = NoPoint
       /\ Cardinality(N) < 2 => lt.prev = NoPoint
       /\ N # {} =>
              \E a \in N :
                  /\ lt.last = chart[a]
                  /\ \A k \in N : ~DateGT(chart[k].date, chart[a].date)
                  /\ Cardinality(N) >= 2 =>
                         \E b \in N \ {a} :
                             /\ lt.prev = chart[b]
                             /\ \A k \in N \ {a} : ~DateGT(chart[k].date, chart[b].date)

\* a numeric point, then a point without a weight, then the latest numeric point
C10_Witness ==
    LET chart == Series
    IN /\ Len(chart) = 3
       /\ chart[1].weight = Num(40000)
       /\ chart[2].weight = Null
       /\ chart[3].weight = Num(42000)
       /\ DateGT(chart[3].date, chart[2].date) /\ DateGT(chart[2].date, chart[1].date)
       /\ lastTwo(chart).prev = chart[1]
       /\ lastTwo(chart).last = chart[3]

\* C11: delta is the difference of the last and the previous numeric weight
\* rounded to hundredths (a multiple of 0.01 at most half a hundredth away from
\* the difference) when both exist, and null with fewer than two numeric points;
\* for the points (2024-01-01, 40) and (2024-01-08, 42) it is 2.
C11_DeltaRounded ==
    LET chart == Series
        lt == lastTwo(chart)
        N == NumericPoints(chart)
        diff == lt.last.weight.n - lt.prev.weight.n
    IN /\ Cardinality(N) < 2 => lt.delta = Null
       /\ Cardinality(N) >= 2 =>
              /\ lt.delta.t = "num"
              /\ lt.delta.n % 10 = 0
              /\ lt.delta.n - diff <= 5 /\ diff - lt.delta.n <= 5
       /\ ( /\ Len(chart) = 2
            /\ chart[1].date = "2024-01-01" /\ chart[1].weight = Num(40000)
            /\ chart[2].date = "2024-01-08" /\ chart[2].weight = Num(42000) )
          => lt.delta = Num(2000)

\* the weights 40 and then 40.125: a difference of 0.125, shown as 0.13
C11_Witness ==
    LET chart == Series
    IN /\ Len(chart) = 2
       /\ chart[1].weight = Num(40000) /\ chart[2].weight = Num(40125)
       /\ lastTwo(chart).delta = Num(130)

\* C12: best is the weight of some numeric point and at least every numeric
\* point's weight (the last one's too); it is null exactly when the series has no
\* numeric point.
C12_BestIsMaximum ==
    LET chart == Series
        lt == lastTwo(chart)
        N == NumericPoints(chart)
    IN /\ (lt.best = Null) <=> (N = {})
       /\ N # {} =>
              /\ \E k \in N : chart[k].weight = lt.best
              /\ \A k \in N : chart[k].weight.n <= lt.best.n
              /\ lt.last.weight.n <= lt.best.n

\* the best weight is an earlier one than the last
C12_Witness ==
    LET chart == Series
    IN /\ Len(chart) = 3
       /\ chart[1].weight = Num(42000) /\ chart[2].weight = Null
       /\ chart[3].weight = Num(40000)
       /\ lastTwo(chart).best = Num(42000)

NoSummary == [last |-> NoPoint, prev |-> NoPoint, delta |-> Null, best |-> Null]

\* C13: for an exercise that no stored session has an entry for, the series is
\* empty and last, previous, delta and best are all null.
C13_UnknownExerciseEmpty ==
    Recording = {} => (Series = << >> /\ lastTwo(Series) = NoSummary)

\* a Store of three sessions, none of them with an entry for the exercise
C13_Witness ==
    /\ Len(sessions) = 3 /\ Recording = {}
    /\ selectedExerciseId = "goblet_squat"

----------------------------------------------------------------------------
(* Seeding the form when the day changes *)

\* the day-change effect is the step about to run, on a day of the program
Seeding == ~crashed /\ pending # << >> /\ Head(pending) = "day" /\ KnownDay(dayKey)

\* the sessions of ss with a non-empty weight for exercise x
WithWeight(ss, x) == {i \in 1..Len(ss) : HasWeightFor(ss[i], x)}

\* the exercise x of day k
ExerciseOf(b, k, x) ==
    LET exs == PROGRAM(b)[k].exercises
    IN exs[CHOOSE i \in 1..Len(exs) : exs[i].id = x]

\* C14: the weight seeded for an exercise of the day is the one of a session of the
\* latest date among the sessions with a non-empty weight for it, whatever the
\* order of the Store; without such a session it is the exercise's starting
\* value, and empty without one.
C14_SeedFromLatestDate ==
    [][ Seeding =>
          \A x \in ExerciseIdsOf(build, dayKey) :
              LET hits == WithWeight(rendered, x)
              IN IF hits = {}
                 THEN entries'[x].weight = Coalesce(ExerciseOf(build, dayKey, x).start, EMPTY)
                 ELSE \E i \in hits :
                          /\ \A j \in hits : ~DateGT(rendered[j].date, rendered[i].date)
                          /\ entries'[x].weight = rendered[i].entries[x].weight ]_vars

\* C15: seeding gives entries to exactly the exercises of the active day, each
\* with empty sets and empty reps; with an empty Store and day d1, shoulder_press
\* is seeded with 35.
C15_SeededSetsAndRepsEmpty ==
    [][ Seeding =>
          /\ DOMAIN entries' = ExerciseIdsOf(build, dayKey)
          /\ \A x \in DOMAIN entries' : entries'[x].sets = EMPTY /\ entries'[x].reps = EMPTY
          /\ (rendered = << >> /\ dayKey = "d1")
                 => entries'["shoulder_press"].weight = Num(35000) ]_vars

\* Day 2 seeded from a Store that holds a weight for one of its exercises
C15_Witness ==
    /\ Idle /\ dayKey = "d2" /\ edits = 0 /\ lastOp = "other"
    /\ Len(sessions) = 1
    /\ DOMAIN entries = ExerciseIdsOf(build, "d2")
    /\ entries["ab_crunch_machine"].weight = Num(40000)
    /\ entries["goblet_squat"].weight = EMPTY

----------------------------------------------------------------------------
(* clearAll *)

\* C19: clearAll empties the Store when the user confirms; when the user
\* declines, the Store and all other state stay as they are.
C19_ClearOnlyWhenConfirmed ==
    [][ Idle =>
          /\ lastOp' = "clearAll:confirmed" => sessions' = << >>
          /\ lastOp' = "clearAll:declined" =>
                 UNCHANGED << build, downloaded, sessions, rendered, formVars, uiVars, storage,
                              pending, stale, reading, crashed, edits >> ]_vars

\* the user has declined, and the Store holds its session
C19_Witness ==
    /\ lastOp = "clearAll:declined"
    /\ Len(sessions) >= 1 /\ storage = stringify(sessions)

----------------------------------------------------------------------------
(* Export and import of the exported file *)

\* what is typed into a weight field here: nothing, a number, and a numeric
\* literal beyond every finite number
RoundTripTexts == {"", "42", "Infinity"}

InitRoundTrip == \E b \in Builds : Mount(b, "2024-01-01", Text("store", << >>))

NextRoundTrip ==
    \/ Effects
    \/ \E value \in RoundTripTexts : updateEntry("shoulder_press", "weight", value)
    \/ \E d \in FormDates : setDate(d)
    \/ \E stamp \in {FirstStamp} : saveSessionWith(stamp)
    \/ setTab("log")
    \/ exportData
    \/ (downloaded # NoFile /\ importStart(downloaded))
    \/ importResume

SpecRoundTrip == InitRoundTrip /\ [][NextRoundTrip]_vars

\* C20: exporting leaves the Store (and the blob) as it is, and importing the
\* file exported from the Store gives the Store again: the same sessions in the
\* same order with the same field values.
C20_ExportImportRoundTrip ==
    [][ /\ (Idle /\ lastOp' = "exportData") =>
                UNCHANGED << sessions, rendered, storage, pending >>
        /\ (Resuming /\ reading = downloaded /\ downloaded = stringify(sessions)) =>
                (sessions' = sessions /\ alertMsg' = "Import complete.") ]_vars

----------------------------------------------------------------------------
(* Persistence: the blob against the Store *)

\* C21: once the effects of a Store mutation (save, delete, accepted import,
\* confirmed clear, startup load) have run, the blob is the serialization of the
\* Store; the blob is read by the load effect only, which runs once, at mount.
C21_BlobFollowsStore ==
    /\ Idle => storage = stringify(sessions)
    /\ \A i \in 1..Len(pending) :
           pending[i] = "load" => (i = 1 /\ lastOp = "mount" /\ rendered = << >> /\ ~stale)

\* an import has replaced the Store and the save effect has written it
C21_Witness ==
    /\ Idle /\ lastOp = "importDataFromFile:complete"
    /\ Len(sessions) = 2
    /\ storage = stringify(sessions)

\* C28: while the component starts from a blob that holds a non-empty Store, the
\* blob keeps holding these sessions: it is never overwritten with an empty Store.
C28_StartupKeepsBlob ==
    (lastOp = "mount" /\ sessions # << >>) => storage = stringify(sessions)

----------------------------------------------------------------------------
(* The calendar: picking a date *)

\* a session of a day the program does not have, as a file may hold it
FileOtherDay == Session("2024-01-08-d9-cccc", "2024-01-08", "d9", Num(40000))

CalendarFiles == {Text("store", << FileA >>), Text("store", << FileA, FileOtherDay >>)}

InitCalendar == \E b \in Builds : Mount(b, "2024-01-01", Text("store", << >>))

NextCalendar ==
    \/ Effects
    \/ \E file \in CalendarFiles : importStart(file)
    \/ importResume
    \/ \E iso \in FormDates : loadSessionForDate(iso)
    \/ \E k \in DayChoices : setDayKey(k)
    \/ \E stamp \in {FirstStamp} : saveSessionWith(stamp)
    \/ \E t \in Tabs : setTab(t)

SpecCalendar == InitCalendar /\ [][NextCalendar]_vars

\* C23: no error is fatal: in every reachable state, also after an import of a
\* file that passes the shape check, the active dayKey is one of the program's
\* days and no handler, effect or render has raised an error.
C23_NoFatalError == ~crashed /\ KnownDay(dayKey)

\* C24: once the effects of picking a date with a stored session have run, the
\* form shows that session as stored: its dayKey, notes and cardio minutes, and
\* for every exercise of its day the stored weight, sets and reps.
C24_PickedSessionShown ==
    LET i == sessionIndexByDate(sessions, date)
    IN (Idle /\ lastOp = "loadSessionForDate" /\ i # 0 /\ KnownDay(sessions[i].dayKey)) =>
           LET s == sessions[i]
           IN /\ dayKey = s.dayKey
              /\ notes = s.notes
              /\ cardioMinutes = s.cardio.minutes
              /\ \A x \in ExerciseIdsOf(build, s.dayKey) :
                     x \in DOMAIN s.entries => entries[x] = s.entries[x]

----------------------------------------------------------------------------
(* Seeding after a Store mutation *)

\* C25: seeding runs again after every Store mutation (startup load, save,
\* delete, import, clear): once the effects have run, a form that nobody has
\* edited holds the defaults seeded from the current Store for the active day.
C25_SeededFromCurrentStore ==
    (Idle /\ edits = 0 /\ lastOp # "loadSessionForDate") =>
        entries = nextEntries(build, sessions, dayKey)

----------------------------------------------------------------------------
(* deleteSession *)

\* an id that no session has
AbsentId == "2024-01-15-d4-0000"

InitDelete == \E b \in Builds, ss \in StoresUpTo(MaxSessions) : AtRest(b, ss)

NextDelete ==
    \/ SaveEffect
    \/ DayEffect
    \/ setTab("history")
    \/ \E id \in {sessions[i].id : i \in 1..Len(sessions)} \cup {AbsentId} : deleteSession(id)

SpecDelete == InitDelete /\ [][NextDelete]_vars

\* C26: deleteSession(id) leaves exactly the sessions whose id is not the
\* argument, each unchanged and in the order they had; for an id that no session
\* has, the Store keeps its contents.
C26_DeleteRemovesThatId ==
    [][ \A id \in {sessions[i].id : i \in 1..Len(sessions)} \cup {AbsentId} :
          deleteSession(id) =>
              LET K == {i \in 1..Len(sessions) : sessions[i].id # id}
              IN /\ Len(sessions') = Cardinality(K)
                 /\ \A i \in K : sessions'[Cardinality({j \in K : j <= i})] = sessions[i]
                 /\ (K = 1..Len(sessions)) => sessions' = sessions ]_vars

\* the first of two sessions has been deleted (the blob still holds both)
C26_Witness ==
    /\ lastOp = "deleteSession"
    /\ pending # << >> /\ Head(pending) = "save"
    /\ Len(storage.sessions) = 2 /\ Len(sessions) = 1
    /\ sessions[1] = storage.sessions[2]
    /\ sessions[1].id # storage.sessions[1].id

----------------------------------------------------------------------------
(* Operations that run while importDataFromFile waits for the file's text *)

\* the step removes the sessions of one id from the Store and nothing else
RemovesOneId ==
    \E id \in {sessions[i].id : i \in 1..Len(sessions)} :
        LET K == {i \in 1..Len(sessions) : sessions[i].id # id}
        IN /\ Len(sessions') = Cardinality(K)
           /\ \A i \in K : sessions'[Cardinality({j \in K : j <= i})] = sessions[i]

\* the step writes the form into one place of the Store and keeps the others
WritesForm ==
    \E i \in 1..Len(sessions') :
        /\ CarriesForm(sessions'[i])
        /\ Len(sessions') \in {Len(sessions), Len(sessions) + 1}
        /\ \A j \in 1..Len(sessions') : j # i => (j <= Len(sessions) /\ sessions'[j] = sessions[j])

\* C27: while an import waits for the file's text, a step changes the Store only
\* as one whole save, delete or clear of the Store of that moment; when the read
\* settles, the Store becomes the file's sessions if the file is accepted and
\* stays as those operations left it if the file is refused.
C27_ImportInterleaving ==
    [][ (Idle /\ reading # NoFile) =>
          IF reading' = NoFile
          THEN sessions' = IF reading.kind = "store" THEN reading.sessions ELSE sessions
          ELSE \/ sessions' = sessions
               \/ sessions' = << >>
               \/ RemovesOneId
               \/ WritesForm ]_vars

\* a save has appended to the Store while an import waits for its file
C27_Witness ==
    /\ Idle /\ reading # NoFile /\ reading.kind = "store"
    /\ lastOp = "saveSession:appended"
    /\ Len(sessions) = 2 /\ sessions # reading.sessions

----------------------------------------------------------------------------
(* saveSession: the session it writes and the form it leaves *)

InitSave == \E b \in Builds : Mount(b, "2024-01-01", Text("store", << >>))

NextSave ==
    \/ Effects
    \/ \E d \in FormDates : setDate(d)
    \/ \E k \in DayChoices : setDayKey(k)
    \/ \E v \in NoteTexts : setNotes(v)
    \/ \E x \in WeightEdits : updateEntry(x, "weight", "42")
    \/ \E stamp \in {FirstStamp} : saveSessionWith(stamp)
    \/ setTab("log")

SpecSave == InitSave /\ [][NextSave]_vars

\* s has the shape of a session of day k of the catalog, on date d
ShapedFor(s, d, k) ==
    /\ s.date = d /\ s.dayKey = k
    /\ DOMAIN s.entries = ExerciseIdsOf(build, k)
    /\ s.dayName = PROGRAM(build)[k].title
    /\ s.cardio.type = PROGRAM(build)[k].cardio.type

\* C29: a save writes one session whose entries have exactly the exercise ids of
\* the form's day, whose dayName and cardio type are that day's in the catalog and
\* whose date and dayKey are the form's; every other session is one the Store had;
\* after the save notes are empty, the tab is progress, date and dayKey are as before.
C29_SavedSessionShape ==
    [][ saveSession =>
          /\ \E i \in 1..Len(sessions') :
                 /\ ShapedFor(sessions'[i], date, dayKey)
                 /\ \A j \in 1..Len(sessions') :
                        j # i => (j <= Len(sessions) /\ sessions'[j] = sessions[j])
          /\ notes' = "" /\ tab' = "progress"
          /\ date' = date /\ dayKey' = dayKey ]_vars

\* a Day 2 session with a typed note has been saved behind an earlier session
C29_Witness ==
    /\ lastOp = "saveSession:appended" /\ tab = "progress" /\ notes = ""
    /\ dayKey = "d2" /\ Len(sessions) = 2
    /\ sessions[2].dayKey = "d2" /\ sessions[2].notes = "pb"
    /\ sessions[2].dayName = "Day 2 - Light Lower + Stairs + Abs"
    /\ "goblet_squat" \in DOMAIN sessions[2].entries

====
